---- MODULE Spec2Model ----
(***************************************************************************)
(* css-modules-require-hook (lib/index.js): the resolution, caching and    *)
(* lazy-delivery engine between the module loader and the postcss          *)
(* pipeline: resolveFilename, the tokensByFile cache, fetch, fetchProxy    *)
(* and the cssModulesHook extension handler.                               *)
(***************************************************************************)
EXTENDS Integers, Sequences, FiniteSets, TLC

(***************************************************************************)
(* Bounds of the model.                                                    *)
(***************************************************************************)
\* top-level operations (fetch calls, requires, proxy reads and writes) per run
MaxOps == 3
\* errors raised by the file system, the pipeline or a user hook per run
MaxFaults == 1
\* frames of fetch the engine's call stack holds before it raises RangeError
StackLimit == 3
\* entries of a style sheet's token mapping drawn in SheetSpec
MaxKeys == 2

(***************************************************************************)
(* JavaScript values.  A string is a sequence of one-character strings.    *)
(***************************************************************************)
Str(s) == [t |-> "string", s |-> s]
Num(n) == [t |-> "number", n |-> n]
Bool(b) == [t |-> "boolean", b |-> b]
Null == [t |-> "null"]
Undefined == [t |-> "undefined"]
\* an object has an identity (id) and own properties in insertion order
Object(id, props) == [t |-> "object", id |-> id, props |-> props]

\* ToBoolean, as used by `if (x)`, `x && y`, `x || y`
Truthy(v) ==
  CASE v.t = "string" -> v.s # <<>>
    [] v.t = "number" -> v.n # 0
    [] v.t = "boolean" -> v.b
    [] v.t = "object" -> TRUE
    [] OTHER -> FALSE

\* own properties: a sequence of [key, value] with distinct keys
HasProp(props, k) == \E i \in DOMAIN props : props[i].key = k

GetProp(props, k) ==
  IF HasProp(props, k)
    THEN props[CHOOSE i \in DOMAIN props : props[i].key = k].value
    ELSE Undefined

\* props[k] = v: an existing key keeps its place, a new key is appended
SetProp(props, k, v) ==
  IF HasProp(props, k)
    THEN [i \in DOMAIN props |->
            IF props[i].key = k THEN [key |-> k, value |-> v] ELSE props[i]]
    ELSE Append(props, [key |-> k, value |-> v])

\* v[name] for a value v that is not null or undefined
Index(v, name) == IF v.t = "object" THEN GetProp(v.props, name) ELSE Undefined

(***************************************************************************)
(* lodash camelCase over the letters and separators of the model.          *)
(***************************************************************************)
Lowers == {"a", "b", "c", "e", "h"}
Uppers == {"A", "B", "C", "E", "H"}
Separators == {"-", "_"}

ToLowerChar(c) ==
  CASE c = "A" -> "a" [] c = "B" -> "b" [] c = "C" -> "c"
    [] c = "E" -> "e" [] c = "H" -> "h" [] OTHER -> c

ToUpperChar(c) ==
  CASE c = "a" -> "A" [] c = "b" -> "B" [] c = "c" -> "C"
    [] c = "e" -> "E" [] c = "h" -> "H" [] OTHER -> c

toUpperCase(s) == [i \in DOMAIN s |-> ToUpperChar(s[i])]

\* lodash words(): a word starts at the start of the string, after a
\* separator, at a lower-to-upper transition, and at the last capital of a run
\* of capitals that a lower-case letter follows
WordStart(s, i) ==
  /\ s[i] \notin Separators
  /\ \/ i = 1
     \/ s[i - 1] \in Separators
     \/ s[i - 1] \in Lowers /\ s[i] \in Uppers
     \/ /\ s[i - 1] \in Uppers /\ s[i] \in Uppers
        /\ i < Len(s) /\ s[i + 1] \in Lowers

RECURSIVE CamelFrom(_, _, _)
\* the camel-cased rest of s from position i; first: no word was emitted yet
CamelFrom(s, i, first) ==
  IF i > Len(s) THEN <<>>
  ELSE IF s[i] \in Separators THEN CamelFrom(s, i + 1, first)
  ELSE IF WordStart(s, i) /\ ~first
    THEN <<ToUpperChar(s[i])>> \o CamelFrom(s, i + 1, FALSE)
    ELSE <<ToLowerChar(s[i])>> \o CamelFrom(s, i + 1, FALSE)

camelCaseFunc(s) == CamelFrom(s, 1, TRUE)

RECURSIVE MapKeysFrom(_, _, _)
MapKeysFrom(props, i, acc) ==
  IF i > Len(props) THEN acc
  ELSE MapKeysFrom(props, i + 1,
                   SetProp(acc, camelCaseFunc(props[i].key), props[i].value))

\* lodash mapKeys(tokens, (value, key) => camelCaseFunc(key))
mapKeys(props) == MapKeysFrom(props, 1, <<>>)

RECURSIVE AssignFrom(_, _, _)
AssignFrom(dest, src, i) ==
  IF i > Len(src) THEN dest
  ELSE AssignFrom(SetProp(dest, src[i].key, src[i].value), src, i + 1)

\* lodash assign(dest, src)
assign(dest, src) == AssignFrom(dest, src, 1)

CamelAugment_KeysReplaced(props) == mapKeys(props)

CamelAugment_OriginalsLose(props) == assign(props, mapKeys(props))

\* line 122: assign(mapKeys(tokens, camelCaseFunc), tokens)
CamelAugment(props) == assign(mapKeys(props), props)

(***************************************************************************)
(* File names.  A path or import specifier is its first character (the     *)
(* character resolveFilename tests) and the text that follows the leading  *)
(* "/" or "./"; every style sheet of the model lives in the root directory.*)
(***************************************************************************)
Abs(name) == [head |-> "/", tail |-> name]
Rel(name) == [head |-> ".", tail |-> name]
Pkg(first, rest) == [head |-> first, tail |-> rest]

FileA == Abs("a.css")
FileB == Abs("b.css")
FileC == Abs("c.css")
FileD == Abs("d.css")
FileM == Abs("m.css")
FileI == Abs("i.css")
FileE == Abs("e.css")

\* the style sheets on disk
Paths == {FileA, FileB, FileC, FileD, FileE, FileM, FileI}

\* the cross-file references of each sheet, in the order the pipeline's
\* parser resolves them: a and b reference each other, d references c,
\* e references c and d, m references a package-style specifier nothing
\* resolves
Imports(filename) ==
  CASE filename = FileA -> <<Rel("b.css")>>
    [] filename = FileB -> <<Rel("a.css")>>
    [] filename = FileD -> <<Rel("c.css")>>
    [] filename = FileE -> <<Rel("c.css"), Rel("d.css")>>
    [] filename = FileM -> <<Pkg("x", ".css")>>
    [] OTHER -> <<>>

KeyAB == <<"a", "-", "b">>
KeyA_B == <<"a", "_", "b">>
KeyaB == <<"a", "B">>
KeyC == <<"c">>
KeyCache == <<"c", "a", "c", "h", "e">>

\* the token mapping the pipeline extracts from each sheet (root.tokens)
FixedSheets ==
  [f \in Paths |->
     CASE f = FileC -> << [key |-> KeyAB, value |-> Str(<<"c", "a">>)],
                          [key |-> KeyaB, value |-> Str(<<"c", "b">>)] >>
       [] f = FileD -> << [key |-> KeyAB, value |-> Str(<<"e", "a">>)],
                          [key |-> KeyA_B, value |-> Str(<<"e", "b">>)] >>
       [] f = FileI -> <<>>
       [] OTHER -> << [key |-> KeyC, value |-> Str(<<"h">>)] >>]

(***************************************************************************)
(* State.                                                                  *)
(***************************************************************************)
VARIABLES
  debugMode,          \* line 49: devMode
  camelCase,          \* option camelCase
  processTokens,      \* option processTokens: "none", "identity" or "toUpper"
  ignore,             \* option ignore: the tails of the ignored file names
  globalM,            \* the binding of the free identifier m of line 195
  sheets,             \* the token mapping of each sheet on disk
  tokensByFile,       \* line 46: the token cache
  requireCache,       \* require.cache: module entries and `${filename}.proxy`
  proxies,            \* the targets of the proxies fetchProxy created
  exported,           \* the targets of the proxies the compiled modules export
  stack,              \* the fetch calls in progress, innermost last
  pending,            \* the operation whose fetch is in progress
  outcome,            \* how the last operation ended
  lastFetched,        \* per path, what the last returned fetch of it returned
  fetchCalls,         \* per path, the calls of fetch that resolved to it
  pipelineRuns,       \* per path, the transformations started
  processTokensCalls, \* calls of the processTokens option
  existingHookCalls,  \* the argument lists the previous handler was called with
  nextId,             \* identities of the objects allocated so far
  ops,                \* operations started
  faults              \* errors injected

config == <<debugMode, camelCase, processTokens, ignore, globalM, sheets>>
heap == <<tokensByFile, requireCache, proxies, exported>>
control == <<stack, pending, outcome>>
history == <<lastFetched, fetchCalls, pipelineRuns, processTokensCalls,
            existingHookCalls>>
vars == <<config, heap, control, history, nextId, ops, faults>>

NoPending == [op |-> "none"]
Idle == stack = <<>> /\ pending = NoPending

Return(v) == [status |-> "return", value |-> v]
Throw(e) == [status |-> "throw", error |-> e]

\* the key `${filename}.proxy`
ProxyKey(filename) == [head |-> filename.head, tail |-> filename.tail \o ".proxy"]

CacheKeys == Paths \cup {ProxyKey(f) : f \in Paths}

NoEntry == [kind |-> "none"]

(***************************************************************************)
(* resolveFilename                                                         *)
(***************************************************************************)
\* the characters /[^\\/?%*:|"<>\.]/ excludes
PathMarkers == {"\\", "/", "?", "%", "*", ":", "|", "\"", "<", ">", "."}

\* path.dirname: every sheet lives in the root directory
Dirname(from) == Abs("")

\* path.resolve(dir, _to): an absolute _to stands, a relative one is joined
PathResolve(dir, _to) ==
  IF _to.head = "/" THEN _to ELSE [head |-> dir.head, tail |-> dir.tail \o _to.tail]

\* require.resolve: no package of the model provides a style sheet
RequireResolve(_to) == Throw("MODULE_NOT_FOUND")

resolveFilename(_to, from) ==
  IF _to.head \notin PathMarkers
    THEN RequireResolve(_to)
    ELSE Return(PathResolve(Dirname(from), _to))

(***************************************************************************)
(* fetch (lines 99-144), one step per call, nested call and return.        *)
(***************************************************************************)
Done(op, arg, res) ==
  [op |-> op, arg |-> arg, status |-> res.status,
   value |-> IF res.status = "return" THEN res.value ELSE Undefined,
   error |-> IF res.status = "throw" THEN res.error ELSE ""]

CacheHit_Never(cache, filename) == FALSE

\* lines 103-104: the cached tokens, when the cache holds a truthy value
CacheHit(cache, filename) == Truthy(cache[filename])

\* lines 119-123: root.tokens, camel-cased keys added when camelCase is set
ExtractTokens(filename, id) ==
  IF camelCase
    THEN Object(id, CamelAugment(sheets[filename]))
    ELSE Object(id, sheets[filename])

PostProcess_Skipped(tokens, filename, id) == tokens

\* lines 129-131: tokens = processTokens(tokens, filename, lazyResult); the
\* option is the identity function or a function that upper-cases every value
PostProcess(tokens, filename, id) ==
  CASE processTokens = "toUpper" ->
         Object(id, [i \in DOMAIN tokens.props |->
                       [key |-> tokens.props[i].key,
                        value |-> Str(toUpperCase(tokens.props[i].value.s))]])
    [] OTHER -> tokens

CommitCache_Never(cache, filename, tokens) == cache

CommitCache_Always(cache, filename, tokens) == [cache EXCEPT ![filename] = tokens]

\* lines 133-136: the cache is written in normal mode only
CommitCache(cache, filename, tokens) ==
  IF ~debugMode THEN [cache EXCEPT ![filename] = tokens] ELSE cache

\* lines 137-139: delete require.cache[filename] in development mode
DropModule(rc, filename) ==
  IF debugMode THEN [rc EXCEPT ![filename] = NoEntry] ELSE rc

\* the continuation of the operation that called fetch at the top level:
\* a direct caller and the inspect branch (line 156) return the tokens, the
\* get trap (lines 167-174) keeps them as target.cache in development mode
\* and returns tokens[name]
Deliver(pend, res) ==
  CASE pend.op = "get" ->
         /\ proxies' =
              IF res.status = "return" /\ debugMode
                THEN [proxies EXCEPT ![pend.proxy].target =
                        SetProp(@, <<"c", "a", "c", "h", "e">>, res.value)]
                ELSE proxies
         /\ outcome' =
              Done("get", [proxy |-> pend.proxy, name |-> pend.name,
                           exports |-> pend.exports],
                   IF res.status = "return"
                     THEN Return(Index(res.value, pend.name)) ELSE res)
    [] pend.op = "inspect" ->
         /\ proxies' = proxies
         /\ outcome' = Done("inspect", [proxy |-> pend.proxy], res)
    [] OTHER ->
         /\ proxies' = proxies
         /\ outcome' = Done("fetch", [filename |-> pend.filename], res)

\* fetch(_to, from) called by an operation while nothing else runs
StartFetch(_to, from, pend) ==
  LET r == resolveFilename(_to, from) IN
  IF r.status = "throw"
    THEN /\ Deliver(pend, r)
         /\ UNCHANGED <<stack, pending, lastFetched, fetchCalls, pipelineRuns>>
  ELSE IF CacheHit(tokensByFile, r.value)
    THEN /\ Deliver(pend, Return(tokensByFile[r.value]))
         /\ lastFetched' = [lastFetched EXCEPT ![r.value] = tokensByFile[r.value]]
         /\ fetchCalls' = [fetchCalls EXCEPT ![r.value] = @ + 1]
         /\ UNCHANGED <<stack, pending, pipelineRuns>>
  ELSE /\ stack' = <<[filename |-> r.value, next |-> 1]>>
       /\ pending' = pend
       /\ fetchCalls' = [fetchCalls EXCEPT ![r.value] = @ + 1]
       /\ pipelineRuns' = [pipelineRuns EXCEPT ![r.value] = @ + 1]
       /\ UNCHANGED <<proxies, outcome, lastFetched>>

\* a direct call fetch(filename, filename)
FetchCall(filename) ==
  /\ Idle /\ ops < MaxOps
  /\ ops' = ops + 1
  /\ StartFetch(filename, filename, [op |-> "fetch", filename |-> filename])
  /\ UNCHANGED <<config, tokensByFile, requireCache, exported,
                 processTokensCalls, existingHookCalls, nextId, faults>>

Top == stack[Len(stack)]
Importing_Never == FALSE

\* the pipeline still has a reference of the sheet on top to resolve
Importing == stack # <<>> /\ Top.next <= Len(Imports(Top.filename))
NextImport == Imports(Top.filename)[Top.next]
Advance == [stack EXCEPT ![Len(stack)].next = @ + 1]

RECURSIVE CacheAfterThrow_Committed(_, _)
CacheAfterThrow_Committed(cache, frames) ==
  IF frames = <<>> THEN cache
  ELSE CacheAfterThrow_Committed(
         [cache EXCEPT ![Head(frames).filename] =
            Object(0, sheets[Head(frames).filename])],
         Tail(frames))

\* lines 112-131 come before the cache update of line 135 and fetch catches
\* nothing: a throw leaves the cache as it was, for every fetch in progress
CacheAfterThrow(cache, frames) == cache

\* an error leaves every fetch in progress and reaches the pending operation
Unwind(e) ==
  /\ stack' = <<>>
  /\ pending' = NoPending
  /\ Deliver(pending, Throw(e))
  /\ tokensByFile' = CacheAfterThrow(tokensByFile, stack)
  /\ UNCHANGED <<config, requireCache, exported, history, nextId, ops>>

\* the pipeline calls fetch for a reference the cache holds (lines 103-108)
ImportHit ==
  /\ Importing
  /\ LET r == resolveFilename(NextImport, Top.filename) IN
       /\ r.status = "return" /\ CacheHit(tokensByFile, r.value)
       /\ lastFetched' = [lastFetched EXCEPT ![r.value] = tokensByFile[r.value]]
       /\ fetchCalls' = [fetchCalls EXCEPT ![r.value] = @ + 1]
  /\ stack' = Advance
  /\ UNCHANGED <<config, heap, pending, outcome, pipelineRuns,
                 processTokensCalls, existingHookCalls, nextId, ops, faults>>

\* the pipeline calls fetch for a reference the cache does not hold
ImportMiss ==
  /\ Importing /\ Len(stack) < StackLimit
  /\ LET r == resolveFilename(NextImport, Top.filename) IN
       /\ r.status = "return" /\ ~CacheHit(tokensByFile, r.value)
       /\ stack' = Append(stack, [filename |-> r.value, next |-> 1])
       /\ fetchCalls' = [fetchCalls EXCEPT ![r.value] = @ + 1]
       /\ pipelineRuns' = [pipelineRuns EXCEPT ![r.value] = @ + 1]
  /\ UNCHANGED <<config, heap, pending, outcome, lastFetched,
                 processTokensCalls, existingHookCalls, nextId, ops, faults>>

\* the same call when the engine's call stack is exhausted: RangeError
ImportOverflow ==
  /\ Importing /\ Len(stack) >= StackLimit
  /\ LET r == resolveFilename(NextImport, Top.filename) IN
       r.status = "return" /\ ~CacheHit(tokensByFile, r.value)
  /\ Unwind("RangeError")
  /\ UNCHANGED faults

\* the reference does not resolve (line 89 throws)
ImportUnresolved ==
  /\ Importing
  /\ LET r == resolveFilename(NextImport, Top.filename) IN
       r.status = "throw" /\ Unwind(r.error)
  /\ UNCHANGED faults

\* readFileSync, preprocessCss, the pipeline, processCss or processTokens
\* throws in the innermost fetch (lines 112-131)
FetchThrow ==
  /\ stack # <<>> /\ faults < MaxFaults
  /\ faults' = faults + 1
  /\ Unwind("Error")

\* the innermost fetch finishes (lines 119-143)
FetchReturn ==
  /\ stack # <<>> /\ ~Importing
  /\ LET filename == Top.filename
         tokens == PostProcess(ExtractTokens(filename, nextId + 1),
                               filename, nextId + 2)
     IN
       /\ nextId' = nextId + 2
       /\ processTokensCalls' =
            IF processTokens # "none"
              THEN processTokensCalls + 1 ELSE processTokensCalls
       /\ tokensByFile' = CommitCache(tokensByFile, filename, tokens)
       /\ requireCache' = DropModule(requireCache, filename)
       /\ lastFetched' = [lastFetched EXCEPT ![filename] = tokens]
       /\ IF Len(stack) = 1
            THEN /\ stack' = <<>>
                 /\ pending' = NoPending
                 /\ Deliver(pending, Return(tokens))
            ELSE /\ stack' = [SubSeq(stack, 1, Len(stack) - 1)
                                EXCEPT ![Len(stack) - 1].next = @ + 1]
                 /\ UNCHANGED <<pending, proxies, outcome>>
  /\ UNCHANGED <<config, exported, fetchCalls, pipelineRuns, existingHookCalls,
                 ops, faults>>

(***************************************************************************)
(* fetchProxy (lines 149-184): the LazyTokenProxy.                         *)
(***************************************************************************)
KeyEsModule == <<"_", "_", "e", "s", "M", "o", "d", "u", "l", "e">>

\* the property names the operations of the model read and write
Names == {KeyAB, KeyC, KeyCache}

\* the values the operations of the model assign
WriteValues ==
  {Str(<<>>), Num(0), Bool(FALSE), Null, Str(<<"b">>),
   Object(0, << [key |-> KeyAB, value |-> Str(<<"b">>)] >>)}

fetchProxy_Eager(filename) ==
  [filename |-> filename, target |-> <<>>, fetches |-> TRUE]

\* lines 150-151: a proxy over an empty target; building it does not process
\* the file (fetches: whether the construction itself calls fetch)
fetchProxy(filename) ==
  [filename |-> filename, target |-> <<>>, fetches |-> FALSE]

ReturnNow(d) ==
  /\ outcome' = d
  /\ UNCHANGED <<proxies, stack, pending, lastFetched, fetchCalls, pipelineRuns>>

\* the get trap for a string name (lines 159-177); eid is the exported object
\* the read came through, 0 for a read on the proxy itself
GetTrap(pid, name, eid) ==
  LET target == proxies[pid].target
      filename == proxies[pid].filename
      own == GetProp(target, name)
      cache == GetProp(target, KeyCache)
      arg == [proxy |-> pid, name |-> name, exports |-> eid]
  IN IF Truthy(own)
       THEN ReturnNow(Done("get", arg, Return(own)))
     ELSE IF Truthy(cache) /\ Truthy(Index(cache, name))
       THEN ReturnNow(Done("get", arg, Return(Index(cache, name))))
     ELSE IF ~Truthy(tokensByFile[filename])
       THEN StartFetch(filename, filename,
                       [op |-> "get", proxy |-> pid, name |-> name,
                        exports |-> eid])
     ELSE ReturnNow(Done("get", arg, Return(Index(tokensByFile[filename], name))))

\* P[name]
ProxyGet(pid, name) ==
  /\ Idle /\ ops < MaxOps
  /\ ops' = ops + 1
  /\ GetTrap(pid, name, 0)
  /\ UNCHANGED <<config, tokensByFile, requireCache, exported,
                 processTokensCalls, existingHookCalls, nextId, faults>>

\* P[name] = value: the set trap (lines 179-182)
ProxySet(pid, name, value) ==
  /\ Idle /\ ops < MaxOps
  /\ ops' = ops + 1
  /\ proxies' = [proxies EXCEPT ![pid].target = SetProp(@, name, value)]
  /\ outcome' = Done("set", [proxy |-> pid, name |-> name], Return(value))
  /\ UNCHANGED <<config, tokensByFile, requireCache, exported, stack, pending,
                 history, nextId, faults>>

ProxyInspect_Refetch(pid) ==
  /\ Idle /\ ops < MaxOps
  /\ ops' = ops + 1
  /\ StartFetch(proxies[pid].filename, proxies[pid].filename,
                [op |-> "inspect", proxy |-> pid])
  /\ UNCHANGED <<config, tokensByFile, requireCache, exported,
                 processTokensCalls, existingHookCalls, nextId, faults>>

\* P[Symbol(util.inspect.custom)] (lines 154-157)
ProxyInspect(pid) ==
  /\ Idle /\ ops < MaxOps
  /\ ops' = ops + 1
  /\ LET cache == GetProp(proxies[pid].target, KeyCache)
         filename == proxies[pid].filename
         arg == [proxy |-> pid]
     IN IF Truthy(cache)
          THEN ReturnNow(Done("inspect", arg, Return(cache)))
        ELSE IF Truthy(tokensByFile[filename])
          THEN ReturnNow(Done("inspect", arg, Return(tokensByFile[filename])))
        ELSE StartFetch(filename, filename, [op |-> "inspect", proxy |-> pid])
  /\ UNCHANGED <<config, tokensByFile, requireCache, exported,
                 processTokensCalls, existingHookCalls, nextId, faults>>

(***************************************************************************)
(* cssModulesHook (lines 190-219) under the module loader's require.       *)
(***************************************************************************)
\* the files the importing modules of the model require
LoadPaths == {FileC, FileI}

Unbound == [kind |-> "unbound"]

\* buildExceptionChecker (lines 237-247) for a glob over file names
isException(filepath) == filepath.tail \in ignore

\* the module object the loader creates for filename
ModuleOf(filename) == [module |-> filename]

\* require(filename): a cached module is returned as it is, any other file is
\* handed to the extension's handler; the loader forgets a module whose
\* handler throws
Require(filename) ==
  /\ Idle /\ ops < MaxOps
  /\ ops' = ops + 1
  /\ LET arg == [filename |-> filename]
         full == resolveFilename(filename, filename)
         ccc == fetchProxy(full.value)
         pid == Len(proxies) + 1
         eid == Len(exported) + 1
     IN
       IF requireCache[filename].kind = "module"
         THEN /\ outcome' = Done("require", arg, Return(requireCache[filename]))
              /\ UNCHANGED <<heap, stack, pending, history>>
       ELSE IF isException(filename)
         THEN \* line 195: existingHook(m, filename)
              IF globalM = Unbound
                THEN /\ outcome' = Done("require", arg, Throw("ReferenceError"))
                     /\ UNCHANGED <<heap, stack, pending, history>>
                ELSE /\ existingHookCalls' =
                          Append(existingHookCalls,
                                 [module |-> globalM, filename |-> filename])
                     /\ requireCache' =
                          [requireCache EXCEPT ![filename] =
                             [kind |-> "module", exports |-> 0]]
                     /\ outcome' = Done("require", arg, Return(requireCache'[filename]))
                     /\ UNCHANGED <<tokensByFile, proxies, exported, stack,
                                    pending, lastFetched, fetchCalls,
                                    pipelineRuns, processTokensCalls>>
       ELSE IF full.status = "throw"
         THEN /\ outcome' = Done("require", arg, full)
              /\ UNCHANGED <<heap, stack, pending, history>>
       ELSE \* lines 197-217
            /\ requireCache' =
                 [requireCache EXCEPT
                    ![ProxyKey(filename)] = [kind |-> "proxy", id |-> pid],
                    ![filename] = [kind |-> "module", exports |-> eid]]
            /\ exported' = Append(exported, [filename |-> full.value, props |-> <<>>])
            /\ UNCHANGED <<tokensByFile, processTokensCalls, existingHookCalls>>
            /\ IF ccc.fetches
                 THEN \* building the proxy processes the file
                      /\ proxies' = Append(proxies, [filename |-> ccc.filename,
                                                     target |-> ccc.target])
                      /\ stack' = <<[filename |-> ccc.filename, next |-> 1]>>
                      /\ pending' = [op |-> "fetch", filename |-> ccc.filename]
                      /\ fetchCalls' = [fetchCalls EXCEPT ![ccc.filename] = @ + 1]
                      /\ pipelineRuns' = [pipelineRuns EXCEPT ![ccc.filename] = @ + 1]
                      /\ UNCHANGED <<outcome, lastFetched>>
                 ELSE /\ proxies' = Append(proxies, [filename |-> ccc.filename,
                                                     target |-> ccc.target])
                      /\ outcome' = Done("require", arg,
                                         Return(requireCache'[filename]))
                      /\ UNCHANGED <<stack, pending, lastFetched, fetchCalls,
                                     pipelineRuns>>
  /\ UNCHANGED <<config, nextId, faults>>

\* exports[name] on the object a compiled module exports (lines 207-214)
ExportGet(eid, name) ==
  /\ Idle /\ ops < MaxOps
  /\ ops' = ops + 1
  /\ LET target == exported[eid]
         entry == requireCache[ProxyKey(target.filename)]
         arg == [exports |-> eid, name |-> name]
     IN IF name = KeyEsModule
          THEN ReturnNow(Done("exportGet", arg,
                         Return(GetProp(target.props, KeyEsModule))))
        ELSE IF entry.kind # "proxy"
          THEN ReturnNow(Done("exportGet", arg, Throw("TypeError")))
        ELSE GetTrap(entry.id, name, eid)
  /\ UNCHANGED <<config, tokensByFile, requireCache, exported,
                 processTokensCalls, existingHookCalls, nextId, faults>>

\* exports[name] = value: the handler of lines 207-214 has no set trap, so the
\* assignment defines the property on the handler's own target
ExportSet(eid, name, value) ==
  /\ Idle /\ ops < MaxOps
  /\ ops' = ops + 1
  /\ exported' = [exported EXCEPT ![eid].props = SetProp(@, name, value)]
  /\ outcome' = Done("exportSet", [exports |-> eid, name |-> name], Return(value))
  /\ UNCHANGED <<config, tokensByFile, requireCache, proxies, stack, pending,
                 history, nextId, faults>>

(***************************************************************************)
(* Specifications.                                                         *)
(***************************************************************************)
\* the state setupHook leaves (lines 25-79, 186-187)
Setup ==
  /\ ignore = {"i.css"}
  /\ tokensByFile = [f \in Paths |-> Undefined]
  /\ requireCache = [k \in CacheKeys |-> NoEntry]
  /\ proxies = <<>>
  /\ exported = <<>>
  /\ stack = <<>>
  /\ pending = NoPending
  /\ outcome = Done("none", [filename |-> Abs("")], Return(Undefined))
  /\ lastFetched = [f \in Paths |-> Undefined]
  /\ fetchCalls = [f \in Paths |-> 0]
  /\ pipelineRuns = [f \in Paths |-> 0]
  /\ processTokensCalls = 0
  /\ existingHookCalls = <<>>
  /\ nextId = 0
  /\ ops = 0
  /\ faults = 0

\* the fetch engine under every combination of its options
Init ==
  /\ debugMode \in BOOLEAN
  /\ camelCase \in BOOLEAN
  /\ processTokens \in {"none", "identity", "toUpper"}
  /\ globalM = Unbound
  /\ sheets = FixedSheets
  /\ Setup

\* the sheets fetch is called for directly (b.css is reached through a.css)
FetchPaths == {FileA, FileC, FileD, FileE, FileM}

Next ==
  \/ \E f \in FetchPaths : FetchCall(f)
  \/ ImportHit
  \/ ImportMiss
  \/ ImportOverflow
  \/ ImportUnresolved
  \/ FetchThrow
  \/ FetchReturn

Spec == Init /\ [][Next]_vars

\* the hook and the proxies it hands out
HookInit ==
  /\ debugMode \in BOOLEAN
  /\ camelCase = FALSE
  /\ processTokens \in {"none", "identity"}
  /\ globalM \in {Unbound, ModuleOf(Abs("m.js"))}
  /\ sheets = FixedSheets
  /\ Setup

HookNext ==
  \/ \E f \in LoadPaths : Require(f)
  \/ \E e \in DOMAIN exported, k \in Names \cup {KeyEsModule} : ExportGet(e, k)
  \/ \E e \in DOMAIN exported, k \in Names \cup {KeyEsModule}, v \in WriteValues :
       ExportSet(e, k, v)
  \/ \E p \in DOMAIN proxies, k \in Names : ProxyGet(p, k)
  \/ \E p \in DOMAIN proxies, k \in Names, v \in WriteValues : ProxySet(p, k, v)
  \/ \E p \in DOMAIN proxies : ProxyInspect(p)
  \/ FetchThrow
  \/ FetchReturn

HookSpec == HookInit /\ [][HookNext]_vars

\* the keys and values of the sheets SheetSpec draws
SheetKeys == {KeyAB, KeyA_B, KeyaB, <<"a", "b">>, <<"A", "B", "a">>}
SheetValues == {Str(<<"a">>), Str(<<"b">>)}

\* the token mappings of at most MaxKeys entries, in every order
SheetMappings ==
  UNION {{m \in [1..n -> [key : SheetKeys, value : SheetValues]] :
            \A i, j \in 1..n : i # j => m[i].key # m[j].key} : n \in 0..MaxKeys}

\* camelCase over every sheet c.css of the bounded alphabet
SheetInit ==
  /\ debugMode \in BOOLEAN
  /\ camelCase = TRUE
  /\ processTokens = "none"
  /\ globalM = Unbound
  /\ sheets \in {[FixedSheets EXCEPT ![FileC] = m] : m \in SheetMappings}
  /\ Setup

SheetNext ==
  \/ FetchCall(FileC)
  \/ FetchReturn

SheetSpec == SheetInit /\ [][SheetNext]_vars

(***************************************************************************)
(* Properties.                                                             *)
(***************************************************************************)
IsObject(v) == v.t = "object"
NoReferences(f) == Imports(f) = <<>>
OtherPaths(S) == Paths \ S

\* C1: in normal mode, once a fetch of a file without cross-file references
\* has returned a mapping, the cache holds that very object under the file's
\* path and every later fetch of the file returns that same object.
C1_SameReference ==
  [][~debugMode =>
       \A f \in Paths :
         NoReferences(f) =>
           /\ IsObject(lastFetched'[f]) => tokensByFile'[f] = lastFetched'[f]
           /\ IsObject(lastFetched[f]) => lastFetched'[f] = lastFetched[f]]_vars

\* two fetch calls of c.css have returned in normal mode, the second from the
\* cache
C1_Witness ==
  /\ ~debugMode /\ Idle /\ ops = 2 /\ faults = 0
  /\ outcome.op = "fetch" /\ outcome.status = "return"
  /\ outcome.arg.filename = FileC
  /\ fetchCalls[FileC] = 2 /\ pipelineRuns[FileC] = 1
  /\ \A f \in OtherPaths({FileC}) : fetchCalls[f] = 0

\* C2: in live mode the cache never holds an entry, so every call of fetch
\* for a path is a miss: the pipeline has run for it as often as fetch was
\* called for it.
C2_LiveAlwaysMisses ==
  debugMode =>
    \A f \in Paths :
      /\ tokensByFile[f] = Undefined
      /\ pipelineRuns[f] = fetchCalls[f]

\* c.css was fetched twice in live mode and transformed twice
C2_Witness ==
  /\ debugMode /\ Idle /\ faults = 0
  /\ outcome.op = "fetch" /\ outcome.status = "return"
  /\ outcome.arg.filename = FileC
  /\ fetchCalls[FileC] = 2 /\ pipelineRuns[FileC] = 2

C4_ProcessTokensCalledOnLoad ==
  ( /\ processTokens # "none"
    /\ outcome.op = "require" /\ outcome.status = "return"
    /\ ~isException(outcome.arg.filename) )
  => processTokensCalls >= 1

\* C5: a read of P[k] returns the value last assigned to P[k], whatever the
\* value and whatever the tokens hold at k (k other than the name the proxy
\* keeps its own snapshot under).
C5_WriteThenRead ==
  ( /\ outcome.op = "get" /\ outcome.status = "return"
    /\ outcome.arg.name # KeyCache
    /\ HasProp(proxies[outcome.arg.proxy].target, outcome.arg.name) )
  => outcome.value = GetProp(proxies[outcome.arg.proxy].target, outcome.arg.name)

\* C6: require of an ignored file returns without an error, having called
\* the previous handler with the module being loaded and the file name, and
\* no LazyTokenProxy exists for the file.
C6_IgnoredDelegates ==
  ( outcome.op = "require" /\ isException(outcome.arg.filename) )
  => /\ outcome.status = "return"
     /\ existingHookCalls # <<>>
     /\ existingHookCalls[Len(existingHookCalls)] =
          [module |-> ModuleOf(outcome.arg.filename),
           filename |-> outcome.arg.filename]
     /\ \A p \in DOMAIN proxies : proxies[p].filename # outcome.arg.filename

\* the mapping the pipeline yields for f, camel-cased keys added if configured
Augmented(f) ==
  IF camelCase THEN assign(mapKeys(sheets[f]), sheets[f]) ELSE sheets[f]

\* v is what the configured processTokens returns for the mapping of f
IsPostProcessed(v, f) ==
  /\ Len(v.props) = Len(Augmented(f))
  /\ \A i \in DOMAIN v.props :
       /\ v.props[i].key = Augmented(f)[i].key
       /\ v.props[i].value =
            IF processTokens = "toUpper"
              THEN Str(toUpperCase(Augmented(f)[i].value.s))
              ELSE Augmented(f)[i].value

\* C7: with processTokens configured, whatever a fetch returns (from the
\* pipeline or from the cache) and whatever the cache stores is the value
\* processTokens returned for the (augmented) pipeline mapping.
C7_ReturnsPostProcessed ==
  processTokens # "none" =>
    /\ \A f \in Paths :
         /\ IsObject(lastFetched[f]) => IsPostProcessed(lastFetched[f], f)
         /\ IsObject(tokensByFile[f]) => IsPostProcessed(tokensByFile[f], f)
    /\ (outcome.op = "fetch" /\ outcome.status = "return") =>
         IsPostProcessed(outcome.value, outcome.arg.filename)

\* a fetch of c.css was answered from the cache with upper-cased values
C7_Witness ==
  /\ processTokens = "toUpper" /\ ~debugMode /\ Idle
  /\ outcome.op = "fetch" /\ outcome.status = "return"
  /\ outcome.arg.filename = FileC
  /\ fetchCalls[FileC] = 2 /\ pipelineRuns[FileC] = 1
  /\ processTokensCalls = 1

HasSeparator(k) == \E i \in DOMAIN k : k[i] \in Separators

\* the last entry of props whose key camel-cases to ck
LastWithCamel(props, ck) ==
  props[CHOOSE i \in DOMAIN props :
          /\ camelCaseFunc(props[i].key) = ck
          /\ \A j \in DOMAIN props :
               camelCaseFunc(props[j].key) = ck => j <= i]

\* C8 as stated: with camelCase, for every original key k with a separator
\* the fetched mapping holds camelCase(k) with the value of k.
C8_CamelHasValueOfKey ==
  camelCase =>
    \A f \in Paths :
      IsObject(lastFetched[f]) =>
        \A i \in DOMAIN sheets[f] :
          HasSeparator(sheets[f][i].key) =>
            /\ HasProp(lastFetched[f].props, camelCaseFunc(sheets[f][i].key))
            /\ GetProp(lastFetched[f].props, camelCaseFunc(sheets[f][i].key))
                 = GetProp(lastFetched[f].props, sheets[f][i].key)

\* C8 amended: when no processTokens option rewrites the values, the mapping
\* holds camelCase(k); its value is the own value of
\* the original key camelCase(k) when there is one, and otherwise the value of
\* the last original key whose camel-cased form is camelCase(k) (the value of
\* k when no other key shares its camel-cased form).
C8_CamelValue ==
  (camelCase /\ processTokens # "toUpper") =>
    \A f \in Paths :
      IsObject(lastFetched[f]) =>
        \A i \in DOMAIN sheets[f] :
          HasSeparator(sheets[f][i].key) =>
            LET ck == camelCaseFunc(sheets[f][i].key) IN
              /\ HasProp(lastFetched[f].props, ck)
              /\ GetProp(lastFetched[f].props, ck) =
                   IF HasProp(sheets[f], ck)
                     THEN GetProp(sheets[f], ck)
                     ELSE LastWithCamel(sheets[f], ck).value

\* c.css holds a-b and aB with different values and was fetched
C8_Witness ==
  /\ camelCase /\ IsObject(lastFetched[FileC])
  /\ HasProp(sheets[FileC], KeyAB) /\ HasProp(sheets[FileC], KeyaB)
  /\ GetProp(sheets[FileC], KeyAB) # GetProp(sheets[FileC], KeyaB)

\* C9: the recursion of fetch is finite: no path is entered again while a
\* fetch of it is in progress, and no fetch ends by exhausting the call stack.
C9_RecursionFinite ==
  /\ \A i, j \in DOMAIN stack : i # j => stack[i].filename # stack[j].filename
  /\ outcome.error # "RangeError"

\* C10: a throw in a fetch ends every fetch in progress and reaches the
\* operation that started them, and leaves no cache entry for the path that
\* failed nor for any path whose fetch was in progress; an entry only ever
\* holds what a returned fetch of its path returned, so the next fetch of a
\* failed path transforms it again.
C10_FailureLeavesNoEntry ==
  /\ [][(stack # <<>> /\ outcome'.status = "throw" /\ outcome' # outcome) =>
          /\ stack' = <<>> /\ pending' = NoPending
          /\ \A i \in DOMAIN stack :
               tokensByFile'[stack[i].filename] = Undefined]_vars
  /\ [](\A f \in Paths :
          tokensByFile[f] # Undefined => tokensByFile[f] = lastFetched[f])

\* in normal mode c.css failed inside the fetch of d.css
C10_Witness ==
  /\ ~debugMode /\ Idle
  /\ outcome.op = "fetch" /\ outcome.status = "throw" /\ outcome.error = "Error"
  /\ outcome.arg.filename = FileD
  /\ pipelineRuns[FileD] = 1 /\ pipelineRuns[FileC] = 1
  /\ tokensByFile[FileC] = Undefined /\ tokensByFile[FileD] = Undefined

\* a fetch of f returns when every reference resolves and the sheet referenced
\* returns in turn (fuel bounds the descent through a cycle)
RECURSIVE FetchSucceeds(_, _)
FetchSucceeds(f, fuel) ==
  /\ fuel > 0
  /\ \A i \in DOMAIN Imports(f) :
       LET r == resolveFilename(Imports(f)[i], f)
       IN r.status = "return" /\ FetchSucceeds(r.value, fuel - 1)

AcyclicPaths == {f \in Paths : FetchSucceeds(f, Cardinality(Paths))}

\* C11: in normal mode, while no fetch has failed, the pipeline has run at
\* most once for every path of an acyclic reference graph, however often the
\* path was fetched directly or as a reference of other sheets, and exactly
\* once for a path whose fetch has returned.
C11_PipelineOncePerPath ==
  (~debugMode /\ faults = 0) =>
    \A f \in AcyclicPaths :
      /\ pipelineRuns[f] <= 1
      /\ IsObject(lastFetched[f]) => pipelineRuns[f] = 1

\* e.css (references c.css and d.css, d.css references c.css) was fetched
\* twice and c.css directly: one pipeline run for each of c, d and e
C11_Witness ==
  /\ ~debugMode /\ faults = 0 /\ Idle
  /\ fetchCalls[FileE] = 2 /\ fetchCalls[FileC] = 3 /\ fetchCalls[FileD] = 1
  /\ pipelineRuns[FileC] = 1 /\ pipelineRuns[FileD] = 1
  /\ pipelineRuns[FileE] = 1

\* the step is the read P[k] on proxy p, directly or through an exported
\* object: it either returns at once or leaves a fetch in progress
GetStepOn(p, k) ==
  /\ ops' = ops + 1
  /\ \/ /\ pending'.op = "get"
        /\ pending'.proxy = p /\ pending'.name = k
     \/ /\ pending' = NoPending /\ outcome'.op = "get"
        /\ outcome'.arg.proxy = p /\ outcome'.arg.name = k

\* the tokens a fetch returned, as opposed to a value the caller built
IsSnapshot(v) == IsObject(v) /\ v.id > 0

\* proxy p holds a snapshot and nothing else
HoldsOnlySnapshot(p) ==
  /\ HasProp(proxies[p].target, KeyCache)
  /\ \A i \in DOMAIN proxies[p].target :
       /\ proxies[p].target[i].key = KeyCache
       /\ IsSnapshot(proxies[p].target[i].value)

\* C12: in live mode, once a proxy without overrides holds a snapshot, every
\* read of any key on it, present in the mapping or not, returns the
\* snapshot's value at that key and does not run the pipeline again.
C12_SnapshotAnswersReads ==
  [][\A p \in DOMAIN proxies, k \in Names :
       (debugMode /\ HoldsOnlySnapshot(p) /\ GetStepOn(p, k)) =>
         /\ pipelineRuns' = pipelineRuns
         /\ outcome' = Done("get", outcome'.arg,
                            Return(Index(GetProp(proxies[p].target, KeyCache), k)))]_vars

\* the proxy registered under the key the exported object e looks up
RegisteredFor(e) == requireCache[ProxyKey(exported[e].filename)]

\* C13: every read other than the interop flag on the object exported by one
\* load is answered by the proxy created in that same load (every load that
\* exports an object creates one proxy, so the e-th exported object was
\* created with the e-th proxy): the key the object looks up holds that
\* proxy, whatever loads came later.
C13_OwnProxyAnswers ==
  /\ \A e \in DOMAIN exported : RegisteredFor(e) = [kind |-> "proxy", id |-> e]
  /\ (outcome.op = "get" /\ outcome.arg.exports # 0) =>
       outcome.arg.proxy = outcome.arg.exports

\* C14: a value assigned to a key other than the interop flag on an exported
\* object is what every later read of that key on that exported object
\* returns.
C14_ExportWriteThenRead ==
  (/\ outcome.op = "get" /\ outcome.arg.exports # 0
   /\ outcome.status = "return"
   /\ HasProp(exported[outcome.arg.exports].props, outcome.arg.name)) =>
     outcome.value = GetProp(exported[outcome.arg.exports].props, outcome.arg.name)

\* the paths the references of f resolve to
ResolvedImports(f) ==
  {resolveFilename(Imports(f)[i], f).value :
     i \in {j \in DOMAIN Imports(f) :
              resolveFilename(Imports(f)[j], f).status = "return"}}

\* the paths fetched within a fetch of f, to any depth
RECURSIVE FetchedWithin(_, _)
FetchedWithin(f, fuel) ==
  IF fuel = 0 THEN {}
  ELSE ResolvedImports(f) \cup
       UNION {FetchedWithin(r, fuel - 1) : r \in ResolvedImports(f)}

\* C15: when a fetch of a path returns, every fetch nested in it has returned
\* before; in normal mode every path fetched within it, to any depth, already
\* has its cache entry at that moment, while the returning path gets its own
\* entry only then (nested entries are committed first); in live mode no path
\* has an entry.
C15_NestedCommittedFirst ==
  [][(stack # <<>> /\ nextId' # nextId) =>
       LET f == Top.filename
           nested == FetchedWithin(f, Cardinality(Paths))
       IN /\ Top.next > Len(Imports(f))
          /\ \A r \in nested : IsObject(lastFetched[r]) /\ fetchCalls[r] >= 1
          /\ Len(stack') = Len(stack) - 1
          /\ \A i \in DOMAIN stack' : stack'[i].filename = stack[i].filename
          /\ ~debugMode =>
               /\ \A r \in nested : tokensByFile[r] = lastFetched[r]
               /\ tokensByFile[f] = Undefined
               /\ IsObject(tokensByFile'[f])
          /\ debugMode => \A p \in Paths : tokensByFile'[p] = Undefined]_vars

\* in normal mode the fetch of e.css returned, with c.css and d.css fetched
\* within it and all three stored
C15_Witness ==
  /\ ~debugMode /\ Idle
  /\ outcome.op = "fetch" /\ outcome.status = "return"
  /\ outcome.arg.filename = FileE
  /\ FetchedWithin(FileE, Cardinality(Paths)) = {FileC, FileD}
  /\ \A f \in {FileC, FileD, FileE} : IsObject(tokensByFile[f])

\* C16: a fetch of a path whose cache entry exists returns the cached mapping
\* and changes nothing: the file is not read and none of preprocessCss, the
\* pipeline, processCss and processTokens runs (no pipeline run, no
\* processTokens call, no new mapping object, no frame entered), and the
\* cache and the loader's module registry are the same before and after.
C16_HitChangesNothing ==
  [][\A f \in Paths :
       (fetchCalls'[f] # fetchCalls[f] /\ Truthy(tokensByFile[f])) =>
         /\ lastFetched'[f] = tokensByFile[f]
         /\ stack = <<>> =>
              outcome' = Done("fetch", [filename |-> f], Return(tokensByFile[f]))
         /\ Len(stack') = Len(stack)
         /\ pipelineRuns' = pipelineRuns
         /\ processTokensCalls' = processTokensCalls
         /\ nextId' = nextId
         /\ tokensByFile' = tokensByFile
         /\ requireCache' = requireCache]_vars

\* c.css alone was fetched, three times: one pipeline run, and the last call
\* returned the stored mapping
C16_Witness ==
  /\ Idle /\ fetchCalls[FileC] = 3 /\ pipelineRuns[FileC] = 1
  /\ \A f \in OtherPaths({FileC}) : fetchCalls[f] = 0
  /\ outcome = Done("fetch", [filename |-> FileC], Return(tokensByFile[FileC]))
  /\ IsObject(tokensByFile[FileC])

\* C17: a write P[k] = v changes only what later reads of P[k] return: the
\* write itself leaves the cache alone and starts no fetch, and a read of any
\* other key j, one never assigned on P, still returns the mapping's value at
\* j (checked for the keys other than the one the snapshot is kept under).
C17_WriteTouchesOnlyItsKey ==
  /\ [][(ops' = ops + 1 /\ proxies' # proxies /\ Len(proxies') = Len(proxies)) =>
          /\ outcome'.op = "set"
          /\ tokensByFile' = tokensByFile
          /\ fetchCalls' = fetchCalls /\ pipelineRuns' = pipelineRuns
          /\ stack' = <<>> /\ pending' = NoPending]_vars
  /\ [](LET p == outcome.arg.proxy
            j == outcome.arg.name
        IN (/\ outcome.op = "get" /\ outcome.status = "return"
            /\ j # KeyCache /\ ~HasProp(proxies[p].target, j)) =>
             outcome.value = GetProp(Augmented(proxies[p].filename), j))

\* the step is the introspection access on proxy p
InspectStepOn(p) ==
  /\ ops' = ops + 1
  /\ \/ pending'.op = "inspect" /\ pending'.proxy = p
     \/ /\ pending' = NoPending /\ outcome'.op = "inspect"
        /\ outcome'.arg.proxy = p

C19_OriginalsKept ==
  (camelCase /\ processTokens # "toUpper") =>
    \A f \in Paths :
      IsObject(lastFetched[f]) =>
        \A i \in DOMAIN sheets[f] :
          /\ HasProp(lastFetched[f].props, sheets[f][i].key)
          /\ GetProp(lastFetched[f].props, sheets[f][i].key) = sheets[f][i].value

\* c.css was fetched and holds two keys with different values, the
\* camel-cased form of one being the other
C19_Witness ==
  /\ camelCase /\ Idle /\ IsObject(lastFetched[FileC])
  /\ \E i, j \in DOMAIN sheets[FileC] :
       /\ i # j
       /\ camelCaseFunc(sheets[FileC][i].key) = sheets[FileC][j].key
       /\ sheets[FileC][i].value # sheets[FileC][j].value
       /\ GetProp(lastFetched[FileC].props, sheets[FileC][j].key) =
            sheets[FileC][j].value

====
